---- MODULE Spec2Model ----
(***************************************************************************)
(* Model of the contact matcher of netnudge and of what feeds it:          *)
(*   src/src/netnudge/__init__.py              Contact, MatchedContact     *)
(*   src/src/netnudge/matcher/matcher.py       match_contacts              *)
(*   src/src/netnudge/linkedin/parser.py       parse_linkedin_csv          *)
(*   src/src/netnudge/agent/tools/contacts.py  _get_client                 *)
(*                                                                         *)
(* Python strings are sequences of one-character strings; the Python value *)
(* None of an Optional[str] is the one-element sequence None below, which  *)
(* is no string of the alphabet.  Python list positions are 0-based, the   *)
(* sequences here are 1-based; 0 stands for "idx is None".                 *)
(***************************************************************************)
EXTENDS Integers, Sequences, FiniteSets, TLC

VARIABLES
    google_contacts,            \* argument: the primary list
    linkedin_contacts,          \* argument: the secondary list
    pc,                         \* position inside match_contacts
    i,                          \* position of the running for-loop
    matched,                    \* the result list
    used_linkedin_indices,      \* the claimed set
    linkedin_by_email,          \* dict[str, int]
    linkedin_by_name,           \* dict[str, list[int]]
    linkedin_by_name_company,   \* dict[tuple[str, str], int]
    prov,                       \* per output record: which inputs and tier made it
    run,                        \* number of the invocation (1 or 2)
    first_result,               \* what the first invocation returned
    first_prov,                 \* prov of the first invocation
    \* two contacts whose names are compared
    nm_base,                    \* a contact
    nm_var,                     \* a contact written differently
    nm_stretched,               \* an inner run of white space was lengthened
    nm_keys,                    \* the normalized names of the two, once computed
    \* parse_linkedin_csv
    csv_exists,                 \* csv_path.exists()
    csv_file,                   \* the lines of the file, each a list of cells
    csv_pc,                     \* position inside parse_linkedin_csv
    csv_opened,                 \* open(csv_path) was executed
    csv_row,                    \* the line the reader is at
    header_map,                 \* dict[str, str]
    contacts,                   \* the result list
    csv_src,                    \* per result record: the line it was parsed from
    csv_raised,                 \* the exception that ended the call
    \* _get_client
    th_pc,                      \* position of every thread inside _get_client
    th_calls,                   \* calls every thread has started
    th_got,                     \* what the calls of every thread returned
    client,                     \* the global _client: 0 is None
    client_lock,                \* holder of _client_lock: 0 is free
    constructed,                \* GoogleContactsClient instances made so far
    authenticated,              \* instances whose authenticate() has completed
    \* a second invocation of match_contacts, running at the same time
    peer_google_contacts,       \* its primary list
    peer_linkedin_contacts,     \* its secondary list
    peer_pc,                    \* its position inside match_contacts
    peer_i,                     \* its loop position
    peer_matched,               \* its result list
    peer_used_linkedin_indices, \* its claimed set
    peer_linkedin_by_email,     \* its indices
    peer_linkedin_by_name,
    peer_linkedin_by_name_company,
    \* save_message and mark_message_sent
    msg_dirs,                   \* the event directories under MESSAGES_DIR
    msg_files,                  \* the files: path -> text
    msg_clock,                  \* datetime.now(), counted in calls
    msg_log                     \* the calls so far: what each was and returned

matcher_vars == <<google_contacts, linkedin_contacts, pc, i, matched,
                  used_linkedin_indices, linkedin_by_email, linkedin_by_name,
                  linkedin_by_name_company, prov, run, first_result, first_prov>>

name_vars == <<nm_base, nm_var, nm_stretched, nm_keys>>

csv_vars == <<csv_exists, csv_file, csv_pc, csv_opened, csv_row, header_map,
              contacts, csv_src, csv_raised>>

client_vars == <<th_pc, th_calls, th_got, client, client_lock, constructed,
                 authenticated>>

peer_vars == <<peer_google_contacts, peer_linkedin_contacts, peer_pc, peer_i,
               peer_matched, peer_used_linkedin_indices, peer_linkedin_by_email,
               peer_linkedin_by_name, peer_linkedin_by_name_company>>

msg_vars == <<msg_dirs, msg_files, msg_clock, msg_log>>

vars == <<matcher_vars, name_vars, csv_vars, client_vars, peer_vars, msg_vars>>

\* ---------------------------------------------------------------- bounds
MaxPrimary == 2
MaxSecondary == 2
\* characters of first_name and last_name together
MaxNameLen == 6
\* lines of the CSV file, the header line included
MaxLines == 3
\* contacts in each list when two invocations run at the same time
MaxPeerLen == 2
\* calls of save_message and mark_message_sent
MaxMessageCalls == 3
\* threads that call _get_client, and calls of each
NumThreads == 2
MaxCalls == 2

\* ------------------------------------------------------- Python strings
None == <<"None">>

\* truthiness of an Optional[str]: None and "" are falsy
\* a test for None only, which lets the empty string through
TruthyNotNone(s) == s # None

Truthy(s) == s # None /\ s # <<>>

\* an "or" that prefers its second operand
OrSecond(x, y) == IF Truthy(y) THEN y ELSE x

\* x or y
Or(x, y) == IF Truthy(x) THEN x ELSE y

IsSpace(c) == c = " "

\* the letters str.lower() changes, and what it makes of them
LowerTable ==
    ("A" :> "a") @@ ("B" :> "b") @@ ("C" :> "c") @@ ("D" :> "d") @@ ("E" :> "e") @@ ("F" :> "f") @@
    ("G" :> "g") @@ ("H" :> "h") @@ ("I" :> "i") @@ ("J" :> "j") @@ ("K" :> "k") @@ ("L" :> "l") @@
    ("M" :> "m") @@ ("N" :> "n") @@ ("O" :> "o") @@ ("P" :> "p") @@ ("Q" :> "q") @@ ("R" :> "r") @@
    ("S" :> "s") @@ ("T" :> "t") @@ ("U" :> "u") @@ ("V" :> "v") @@ ("W" :> "w") @@ ("X" :> "x") @@
    ("Y" :> "y") @@ ("Z" :> "z")

LowerChar(c) == IF c \in DOMAIN LowerTable THEN LowerTable[c] ELSE c

lower(s) == [k \in 1..Len(s) |-> LowerChar(s[k])]

RECURSIVE lstrip(_)
lstrip(s) == IF s # <<>> /\ IsSpace(Head(s)) THEN lstrip(Tail(s)) ELSE s

RECURSIVE rstrip(_)
rstrip(s) ==
    IF s # <<>> /\ IsSpace(s[Len(s)]) THEN rstrip(SubSeq(s, 1, Len(s) - 1)) ELSE s

strip(s) == rstrip(lstrip(s))

\* ------------------------------------------------------------- Contact
full_name(c) == strip(c.first_name \o <<" ">> \o c.last_name)

\* a name key that keeps the case of the letters
normalized_name_keeps_case(c) == strip(full_name(c))

normalized_name(c) == strip(lower(full_name(c)))

normalized_company(c) ==
    IF Truthy(c.company) THEN strip(lower(c.company)) ELSE None

\* the contacts the two argument lists are drawn from
ContactPool ==
    LET Al == <<"A", "l">>
        al == <<"a", "l">>
        Bo == <<"B", "o">>
        bo == <<"b", "o">>
        Di == <<"D", "i">>
    IN {
      \* a full address-book entry
      [first_name |-> Al, last_name |-> Bo, email |-> <<"e", "@">>,
       phone |-> <<"1">>, company |-> <<"C", "o">>, role |-> <<"r">>,
       notes |-> <<"n">>, linkedin_url |-> None],
      \* the same person as a connection export writes it, with another email
      [first_name |-> al, last_name |-> bo, email |-> <<"f", "@">>,
       phone |-> None, company |-> <<"c", "o", " ">>, role |-> <<"R">>,
       notes |-> None, linkedin_url |-> <<"u">>],
      \* the same name and nothing else, with empty strings
      [first_name |-> Al, last_name |-> Bo, email |-> <<>>,
       phone |-> <<>>, company |-> <<>>, role |-> <<>>,
       notes |-> <<>>, linkedin_url |-> <<>>],
      \* another name with the first email in capitals and a phone of its own
      [first_name |-> <<>>, last_name |-> Di, email |-> <<"E", "@">>,
       phone |-> <<"2">>, company |-> None, role |-> None,
       notes |-> <<"m">>, linkedin_url |-> <<"v">>],
      \* a name of white space only: its normalized_name is empty
      [first_name |-> <<" ">>, last_name |-> <<>>, email |-> None,
       phone |-> None, company |-> <<"c", "o">>, role |-> None,
       notes |-> None, linkedin_url |-> <<"x">>]
    }

SeqsUpTo(S, n) == UNION {[1..k -> S] : k \in 0..n}

\* -------------------------------------------------------- dict helpers
EmptyDict == [k \in {} |-> 0]

\* d.setdefault(key, v): the first value written for a key stays
DictSetDefault(d, key, v) ==
    [k \in DOMAIN d \cup {key} |-> IF k \in DOMAIN d THEN d[k] ELSE v]

DictSet(d, key, v) ==
    [k \in DOMAIN d \cup {key} |-> IF k = key THEN v ELSE d[k]]

\* d.get(key) of a dict[..., int]: 0 stands for None
DictGet(d, key) == IF key \in DOMAIN d THEN d[key] ELSE 0

\* ------------------------------------------------------ MatchedContact
\* g and l are Optional[Contact]: the empty set is None, {c} is the contact c
Given(o) == o # {}
The(o) == CHOOSE c \in o : TRUE

merged_phone(g, l) == IF Given(g) THEN The(g).phone ELSE None

\* notes that fall back to the LinkedIn contact like the fields above them
merged_notes_with_fallback(g, l) ==
    Or(IF Given(g) THEN The(g).notes ELSE None,
       IF Given(l) THEN The(l).notes ELSE None)

merged_notes(g, l) == IF Given(g) THEN The(g).notes ELSE None

merged_linkedin_url(g, l) == IF Given(l) THEN The(l).linkedin_url ELSE None

\* a channel left at the default of the dataclass
channel_default(phone) == "LinkedIn"

\* Channel.SMS if phone else Channel.LINKEDIN
channel_for(phone) == IF Truthy(phone) THEN "SMS" ELSE "LinkedIn"

from_contacts(g, l, confidence) ==
    LET first_name == Or(Or(IF Given(g) THEN The(g).first_name ELSE None,
                            IF Given(l) THEN The(l).first_name ELSE <<>>), <<>>)
        last_name == Or(Or(IF Given(g) THEN The(g).last_name ELSE None,
                           IF Given(l) THEN The(l).last_name ELSE <<>>), <<>>)
        email == Or(IF Given(g) THEN The(g).email ELSE None,
                    IF Given(l) THEN The(l).email ELSE None)
        phone == merged_phone(g, l)
        company == Or(IF Given(g) THEN The(g).company ELSE None,
                      IF Given(l) THEN The(l).company ELSE None)
        role == Or(IF Given(g) THEN The(g).role ELSE None,
                   IF Given(l) THEN The(l).role ELSE None)
        notes == merged_notes(g, l)
        linkedin_url == merged_linkedin_url(g, l)
        channel == channel_for(phone)
    IN [first_name |-> first_name, last_name |-> last_name, email |-> email,
        phone |-> phone, company |-> company, role |-> role, notes |-> notes,
        linkedin_url |-> linkedin_url, match_confidence |-> confidence,
        channel |-> channel]

\* ------------------------------------------------------ match_contacts
\* the three tiers; each yields the selected position, or 0 for no match

\* an email tier that looks the email up as written, without lower()
try_email_as_written(g, by_email, used) ==
    IF Truthy(g.email)
    THEN LET idx == DictGet(by_email, g.email)
         IN IF idx # 0 /\ idx \notin used THEN idx ELSE 0
    ELSE 0

try_email(g, by_email, used) ==
    IF Truthy(g.email)
    THEN LET idx == DictGet(by_email, lower(g.email))
         IN IF idx # 0 /\ idx \notin used THEN idx ELSE 0
    ELSE 0

try_name_company(g, by_name_company, used) ==
    IF Truthy(normalized_name(g)) /\ Truthy(normalized_company(g))
    THEN LET key == <<normalized_name(g), normalized_company(g)>>
             idx == DictGet(by_name_company, key)
         IN IF idx # 0 /\ idx \notin used THEN idx ELSE 0
    ELSE 0

\* a scan that keeps the last unused candidate instead of stopping at the first
last_unused(candidates, used) ==
    LET free == {k \in 1..Len(candidates) : candidates[k] \notin used}
    IN IF free = {} THEN 0
       ELSE candidates[CHOOSE k \in free : \A k2 \in free : k >= k2]

first_unused(candidates, used) ==
    LET free == {k \in 1..Len(candidates) : candidates[k] \notin used}
    IN IF free = {} THEN 0
       ELSE candidates[CHOOSE k \in free : \A k2 \in free : k <= k2]

try_name(g, by_name, used) ==
    IF Truthy(normalized_name(g))
    THEN LET candidates == IF normalized_name(g) \in DOMAIN by_name
                           THEN by_name[normalized_name(g)] ELSE <<>>
         IN first_unused(candidates, used)
    ELSE 0

email_confidence == "High"
\* a name + company tier that reports the confidence of the name-only tier
name_company_confidence_medium == "Medium"
name_company_confidence == "High"
name_confidence == "Medium"
no_confidence == "N/A"

\* a loop body that tries the name-only tier before the name + company tier
select_name_first(g, by_email, by_name_company, by_name, used) ==
    LET e == try_email(g, by_email, used)
        nc == try_name_company(g, by_name_company, used)
        n == try_name(g, by_name, used)
    IN IF e # 0 THEN [idx |-> e, confidence |-> email_confidence, tier |-> "email"]
       ELSE IF n # 0
       THEN [idx |-> n, confidence |-> name_confidence, tier |-> "name"]
       ELSE IF nc # 0
       THEN [idx |-> nc, confidence |-> name_company_confidence,
             tier |-> "name_company"]
       ELSE [idx |-> 0, confidence |-> no_confidence, tier |-> "none"]

\* the body of the loop over google_contacts up to "matched_idx = idx"
select(g, by_email, by_name_company, by_name, used) ==
    LET e == try_email(g, by_email, used)
        nc == try_name_company(g, by_name_company, used)
        n == try_name(g, by_name, used)
    IN IF e # 0 THEN [idx |-> e, confidence |-> email_confidence, tier |-> "email"]
       ELSE IF nc # 0
       THEN [idx |-> nc, confidence |-> name_company_confidence,
             tier |-> "name_company"]
       ELSE IF n # 0
       THEN [idx |-> n, confidence |-> name_confidence, tier |-> "name"]
       ELSE [idx |-> 0, confidence |-> no_confidence, tier |-> "none"]

\* a matcher that forgets to mark the selected contact
mark_used_forgets(used, matched_idx) == used

\* used_linkedin_indices.add(matched_idx), guarded by "is not None"
mark_used(used, matched_idx) ==
    IF matched_idx # 0 THEN used \cup {matched_idx} ELSE used

\* a claimed set that outlives the invocation
stale_used == used_linkedin_indices

\* the locals as match_contacts creates them on entry
fresh_used == {}

\* a result list that grows at the front
prepend(list, x) == <<x>> \o list

\* matched.append(matched_contact)
append(list, x) == Append(list, x)

\* the parts of the model that a specification leaves at rest
MatcherIdle ==
    /\ google_contacts = <<>>
    /\ linkedin_contacts = <<>>
    /\ pc = "call"
    /\ i = 0
    /\ matched = <<>>
    /\ used_linkedin_indices = {}
    /\ linkedin_by_email = EmptyDict
    /\ linkedin_by_name = EmptyDict
    /\ linkedin_by_name_company = EmptyDict
    /\ prov = <<>>
    /\ run = 1
    /\ first_result = <<>>
    /\ first_prov = <<>>

NamesIdle ==
    /\ nm_base = [first_name |-> <<>>, last_name |-> <<>>]
    /\ nm_var = [first_name |-> <<>>, last_name |-> <<>>]
    /\ nm_stretched = FALSE
    /\ nm_keys = <<>>

CsvIdle ==
    /\ csv_exists = FALSE
    /\ csv_file = <<>>
    /\ csv_pc = "call"
    /\ csv_opened = FALSE
    /\ csv_row = 0
    /\ header_map = EmptyDict
    /\ contacts = <<>>
    /\ csv_src = <<>>
    /\ csv_raised = "none"

PeerIdle ==
    /\ peer_google_contacts = <<>>
    /\ peer_linkedin_contacts = <<>>
    /\ peer_pc = "call"
    /\ peer_i = 0
    /\ peer_matched = <<>>
    /\ peer_used_linkedin_indices = {}
    /\ peer_linkedin_by_email = EmptyDict
    /\ peer_linkedin_by_name = EmptyDict
    /\ peer_linkedin_by_name_company = EmptyDict

MessagesIdle ==
    /\ msg_dirs = {}
    /\ msg_files = EmptyDict
    /\ msg_clock = 0
    /\ msg_log = <<>>

ClientIdle ==
    /\ th_pc = <<>>
    /\ th_calls = <<>>
    /\ th_got = <<>>
    /\ client = 0
    /\ client_lock = 0
    /\ constructed = 0
    /\ authenticated = {}

Init ==
    /\ NamesIdle
    /\ CsvIdle
    /\ ClientIdle
    /\ PeerIdle
    /\ MessagesIdle
    /\ google_contacts \in SeqsUpTo(ContactPool, MaxPrimary)
    /\ linkedin_contacts \in SeqsUpTo(ContactPool, MaxSecondary)
    /\ pc = "call"
    /\ i = 0
    /\ matched = <<>>
    /\ used_linkedin_indices = {}
    /\ linkedin_by_email = EmptyDict
    /\ linkedin_by_name = EmptyDict
    /\ linkedin_by_name_company = EmptyDict
    /\ prov = <<>>
    /\ run = 1
    /\ first_result = <<>>
    /\ first_prov = <<>>

Enter ==
    /\ pc = "call"
    /\ pc' = "index"
    /\ i' = 1
    /\ matched' = <<>>
    /\ used_linkedin_indices' = fresh_used
    /\ linkedin_by_email' = EmptyDict
    /\ linkedin_by_name' = EmptyDict
    /\ linkedin_by_name_company' = EmptyDict
    /\ prov' = <<>>
    /\ UNCHANGED <<google_contacts, linkedin_contacts, run, first_result, first_prov>>
    /\ UNCHANGED <<name_vars, csv_vars, client_vars,
                   peer_vars, msg_vars>>

\* positions counted from one more than the list starts at
position_off_by_one(k) == k + 1

\* the position enumerate() hands out for the k-th contact
position(k) == k

IndexStep ==
    /\ pc = "index"
    /\ i <= Len(linkedin_contacts)
    /\ LET contact == linkedin_contacts[i]
           name_key == normalized_name(contact)
       IN /\ linkedin_by_email' =
                IF Truthy(contact.email)
                THEN DictSet(linkedin_by_email, lower(contact.email), position(i))
                ELSE linkedin_by_email
          /\ linkedin_by_name' =
                IF Truthy(name_key)
                THEN DictSet(linkedin_by_name, name_key,
                             (IF name_key \in DOMAIN linkedin_by_name
                              THEN linkedin_by_name[name_key] ELSE <<>>)
                             \o <<position(i)>>)
                ELSE linkedin_by_name
          /\ linkedin_by_name_company' =
                IF Truthy(name_key) /\ Truthy(normalized_company(contact))
                THEN DictSet(linkedin_by_name_company,
                             <<name_key, normalized_company(contact)>>, position(i))
                ELSE linkedin_by_name_company
    /\ i' = i + 1
    /\ UNCHANGED <<google_contacts, linkedin_contacts, pc, matched,
                   used_linkedin_indices, prov, run, first_result, first_prov>>
    /\ UNCHANGED <<name_vars, csv_vars, client_vars,
                   peer_vars, msg_vars>>

IndexEnd ==
    /\ pc = "index"
    /\ i > Len(linkedin_contacts)
    /\ pc' = "match"
    /\ i' = 1
    /\ UNCHANGED <<google_contacts, linkedin_contacts, matched,
                   used_linkedin_indices, linkedin_by_email, linkedin_by_name,
                   linkedin_by_name_company, prov, run, first_result, first_prov>>
    /\ UNCHANGED <<name_vars, csv_vars, client_vars,
                   peer_vars, msg_vars>>

\* a merge that writes the merged fields back into the primary contact
merge_in_place(list, k, record) ==
    [list EXCEPT ![k] = [f \in DOMAIN list[k] |-> record[f]]]

\* from_contacts returns a new MatchedContact and assigns to no field of g
\* or l: the list it took the contact from is as before
merge_into_new(list, k, record) == list

\* linkedin_contacts[idx] raises IndexError outside the list
MatchStep ==
    /\ pc = "match"
    /\ i <= Len(google_contacts)
    /\ LET g_contact == google_contacts[i]
           sel == select(g_contact, linkedin_by_email, linkedin_by_name_company,
                         linkedin_by_name, used_linkedin_indices)
           linkedin_match == IF sel.idx # 0 THEN {linkedin_contacts[sel.idx]} ELSE {}
       IN IF sel.idx # 0 /\ sel.idx \notin 1..Len(linkedin_contacts)
          THEN /\ pc' = "raised"
               /\ UNCHANGED <<i, matched, used_linkedin_indices, prov,
                              google_contacts>>
          ELSE /\ used_linkedin_indices' = mark_used(used_linkedin_indices, sel.idx)
               /\ matched' = append(matched,
                                    from_contacts({g_contact}, linkedin_match,
                                                  sel.confidence))
               /\ google_contacts' =
                     merge_into_new(google_contacts, i,
                                    from_contacts({g_contact}, linkedin_match,
                                                  sel.confidence))
               /\ prov' = Append(prov, [g |-> i, l |-> sel.idx, tier |-> sel.tier,
                                        before |-> used_linkedin_indices])
               /\ i' = i + 1
               /\ pc' = pc
    /\ UNCHANGED <<linkedin_contacts, linkedin_by_email,
                   linkedin_by_name, linkedin_by_name_company, run, first_result, first_prov>>
    /\ UNCHANGED <<name_vars, csv_vars, client_vars,
                   peer_vars, msg_vars>>

MatchEnd ==
    /\ pc = "match"
    /\ i > Len(google_contacts)
    /\ pc' = "tail"
    /\ i' = 1
    /\ UNCHANGED <<google_contacts, linkedin_contacts, matched,
                   used_linkedin_indices, linkedin_by_email, linkedin_by_name,
                   linkedin_by_name_company, prov, run, first_result, first_prov>>
    /\ UNCHANGED <<name_vars, csv_vars, client_vars,
                   peer_vars, msg_vars>>

\* a final loop that adds every LinkedIn contact
is_unmatched_always(idx, used) == TRUE

\* the test of the loop that adds the unmatched LinkedIn contacts
is_unmatched(idx, used) == idx \notin used

TailStep ==
    /\ pc = "tail"
    /\ i <= Len(linkedin_contacts)
    /\ IF is_unmatched(i, used_linkedin_indices)
       THEN /\ matched' = append(matched,
                                 from_contacts({}, {linkedin_contacts[i]},
                                               no_confidence))
            /\ prov' = Append(prov, [g |-> 0, l |-> i, tier |-> "none",
                                     before |-> used_linkedin_indices])
       ELSE UNCHANGED <<matched, prov>>
    /\ i' = i + 1
    /\ UNCHANGED <<google_contacts, linkedin_contacts, pc,
                   used_linkedin_indices, linkedin_by_email, linkedin_by_name,
                   linkedin_by_name_company, run, first_result, first_prov>>
    /\ UNCHANGED <<name_vars, csv_vars, client_vars,
                   peer_vars, msg_vars>>

Return ==
    /\ pc = "tail"
    /\ i > Len(linkedin_contacts)
    /\ pc' = "done"
    /\ UNCHANGED <<google_contacts, linkedin_contacts, i, matched,
                   used_linkedin_indices, linkedin_by_email, linkedin_by_name,
                   linkedin_by_name_company, prov, run, first_result, first_prov>>
    /\ UNCHANGED <<name_vars, csv_vars, client_vars,
                   peer_vars, msg_vars>>

\* the caller keeps the result and calls match_contacts again on the same lists
CallAgain ==
    /\ pc = "done"
    /\ run = 1
    /\ run' = 2
    /\ first_result' = matched
    /\ first_prov' = prov
    /\ pc' = "call"
    /\ UNCHANGED <<google_contacts, linkedin_contacts, i, matched,
                   used_linkedin_indices, linkedin_by_email, linkedin_by_name,
                   linkedin_by_name_company, prov>>
    /\ UNCHANGED <<name_vars, csv_vars, client_vars,
                   peer_vars, msg_vars>>

\* one invocation of match_contacts
Next ==
    \/ Enter
    \/ IndexStep
    \/ IndexEnd
    \/ MatchStep
    \/ MatchEnd
    \/ TailStep
    \/ Return

Spec == Init /\ [][Next]_vars

\* two successive invocations on the same two lists
NextTwice ==
    \/ Enter
    \/ IndexStep
    \/ IndexEnd
    \/ MatchStep
    \/ MatchEnd
    \/ TailStep
    \/ Return
    \/ CallAgain

SpecTwice == Init /\ [][NextTwice]_vars

\* ------------------------------------- two invocations at the same time
\* A second call of match_contacts runs while the first one does; its locals
\* are the peer_ variables. The two calls get the same two lists, or the
\* second one gets them with the roles exchanged.

PeerPool == {c \in ContactPool : c.email \in {<<"e", "@">>, <<"f", "@">>}}

InitPair ==
    /\ NamesIdle /\ CsvIdle /\ ClientIdle /\ MessagesIdle
    /\ google_contacts \in SeqsUpTo(PeerPool, MaxPeerLen)
    /\ linkedin_contacts \in SeqsUpTo(PeerPool, MaxPeerLen)
    /\ pc = "call"
    /\ i = 0
    /\ matched = <<>>
    /\ used_linkedin_indices = {}
    /\ linkedin_by_email = EmptyDict
    /\ linkedin_by_name = EmptyDict
    /\ linkedin_by_name_company = EmptyDict
    /\ prov = <<>>
    /\ run = 1
    /\ first_result = <<>>
    /\ first_prov = <<>>
    /\ \E exchanged \in BOOLEAN :
          /\ peer_google_contacts =
                IF exchanged THEN linkedin_contacts ELSE google_contacts
          /\ peer_linkedin_contacts =
                IF exchanged THEN google_contacts ELSE linkedin_contacts
    /\ peer_pc = "call"
    /\ peer_i = 0
    /\ peer_matched = <<>>
    /\ peer_used_linkedin_indices = {}
    /\ peer_linkedin_by_email = EmptyDict
    /\ peer_linkedin_by_name = EmptyDict
    /\ peer_linkedin_by_name_company = EmptyDict

\* a claimed set kept in the module, where every invocation adds to it
claimed_of_module(own, other) == own \cup other

\* used_linkedin_indices is a local of the call: each invocation reads the
\* set of its own frame
claimed_of_frame(own, other) == own

PeerEnter ==
    /\ peer_pc = "call"
    /\ peer_pc' = "index"
    /\ peer_i' = 1
    /\ peer_matched' = <<>>
    /\ peer_used_linkedin_indices' = {}
    /\ peer_linkedin_by_email' = EmptyDict
    /\ peer_linkedin_by_name' = EmptyDict
    /\ peer_linkedin_by_name_company' = EmptyDict
    /\ UNCHANGED <<peer_google_contacts, peer_linkedin_contacts>>
    /\ UNCHANGED <<matcher_vars, name_vars, csv_vars, client_vars, msg_vars>>

PeerIndexStep ==
    /\ peer_pc = "index"
    /\ peer_i <= Len(peer_linkedin_contacts)
    /\ LET contact == peer_linkedin_contacts[peer_i]
           name_key == normalized_name(contact)
       IN /\ peer_linkedin_by_email' =
                IF Truthy(contact.email)
                THEN DictSet(peer_linkedin_by_email, lower(contact.email),
                             position(peer_i))
                ELSE peer_linkedin_by_email
          /\ peer_linkedin_by_name' =
                IF Truthy(name_key)
                THEN DictSet(peer_linkedin_by_name, name_key,
                             (IF name_key \in DOMAIN peer_linkedin_by_name
                              THEN peer_linkedin_by_name[name_key] ELSE <<>>)
                             \o <<position(peer_i)>>)
                ELSE peer_linkedin_by_name
          /\ peer_linkedin_by_name_company' =
                IF Truthy(name_key) /\ Truthy(normalized_company(contact))
                THEN DictSet(peer_linkedin_by_name_company,
                             <<name_key, normalized_company(contact)>>,
                             position(peer_i))
                ELSE peer_linkedin_by_name_company
    /\ peer_i' = peer_i + 1
    /\ UNCHANGED <<peer_google_contacts, peer_linkedin_contacts, peer_pc,
                   peer_matched, peer_used_linkedin_indices>>
    /\ UNCHANGED <<matcher_vars, name_vars, csv_vars, client_vars, msg_vars>>

PeerIndexEnd ==
    /\ peer_pc = "index"
    /\ peer_i > Len(peer_linkedin_contacts)
    /\ peer_pc' = "match"
    /\ peer_i' = 1
    /\ UNCHANGED <<peer_google_contacts, peer_linkedin_contacts, peer_matched,
                   peer_used_linkedin_indices, peer_linkedin_by_email,
                   peer_linkedin_by_name, peer_linkedin_by_name_company>>
    /\ UNCHANGED <<matcher_vars, name_vars, csv_vars, client_vars, msg_vars>>

PeerMatchStep ==
    /\ peer_pc = "match"
    /\ peer_i <= Len(peer_google_contacts)
    /\ LET g_contact == peer_google_contacts[peer_i]
           used == claimed_of_frame(peer_used_linkedin_indices,
                                    used_linkedin_indices)
           sel == select(g_contact, peer_linkedin_by_email,
                         peer_linkedin_by_name_company, peer_linkedin_by_name,
                         used)
           linkedin_match == IF sel.idx # 0
                             THEN {peer_linkedin_contacts[sel.idx]} ELSE {}
       IN IF sel.idx # 0 /\ sel.idx \notin 1..Len(peer_linkedin_contacts)
          THEN /\ peer_pc' = "raised"
               /\ UNCHANGED <<peer_i, peer_matched, peer_used_linkedin_indices>>
          ELSE /\ peer_used_linkedin_indices' =
                     mark_used(peer_used_linkedin_indices, sel.idx)
               /\ peer_matched' =
                     append(peer_matched,
                            from_contacts({g_contact}, linkedin_match,
                                          sel.confidence))
               /\ peer_i' = peer_i + 1
               /\ peer_pc' = peer_pc
    /\ UNCHANGED <<peer_google_contacts, peer_linkedin_contacts,
                   peer_linkedin_by_email, peer_linkedin_by_name,
                   peer_linkedin_by_name_company>>
    /\ UNCHANGED <<matcher_vars, name_vars, csv_vars, client_vars, msg_vars>>

PeerMatchEnd ==
    /\ peer_pc = "match"
    /\ peer_i > Len(peer_google_contacts)
    /\ peer_pc' = "tail"
    /\ peer_i' = 1
    /\ UNCHANGED <<peer_google_contacts, peer_linkedin_contacts, peer_matched,
                   peer_used_linkedin_indices, peer_linkedin_by_email,
                   peer_linkedin_by_name, peer_linkedin_by_name_company>>
    /\ UNCHANGED <<matcher_vars, name_vars, csv_vars, client_vars, msg_vars>>

PeerTailStep ==
    /\ peer_pc = "tail"
    /\ peer_i <= Len(peer_linkedin_contacts)
    /\ peer_matched' =
          IF is_unmatched(peer_i, claimed_of_frame(peer_used_linkedin_indices,
                                                   used_linkedin_indices))
          THEN append(peer_matched,
                      from_contacts({}, {peer_linkedin_contacts[peer_i]},
                                    no_confidence))
          ELSE peer_matched
    /\ peer_i' = peer_i + 1
    /\ UNCHANGED <<peer_google_contacts, peer_linkedin_contacts, peer_pc,
                   peer_used_linkedin_indices, peer_linkedin_by_email,
                   peer_linkedin_by_name, peer_linkedin_by_name_company>>
    /\ UNCHANGED <<matcher_vars, name_vars, csv_vars, client_vars, msg_vars>>

PeerReturn ==
    /\ peer_pc = "tail"
    /\ peer_i > Len(peer_linkedin_contacts)
    /\ peer_pc' = "done"
    /\ UNCHANGED <<peer_google_contacts, peer_linkedin_contacts, peer_i,
                   peer_matched, peer_used_linkedin_indices,
                   peer_linkedin_by_email, peer_linkedin_by_name,
                   peer_linkedin_by_name_company>>
    /\ UNCHANGED <<matcher_vars, name_vars, csv_vars, client_vars, msg_vars>>

\* the steps of the two invocations in any order
NextPair ==
    \/ Enter
    \/ IndexStep
    \/ IndexEnd
    \/ MatchStep
    \/ MatchEnd
    \/ TailStep
    \/ Return
    \/ PeerEnter
    \/ PeerIndexStep
    \/ PeerIndexEnd
    \/ PeerMatchStep
    \/ PeerMatchEnd
    \/ PeerTailStep
    \/ PeerReturn

SpecPair == InitPair /\ [][NextPair]_vars

\* ------------------------------------------ two spellings of one name
\* the names the comparison starts from
NamePool ==
    [first_name : {<<>>, <<"A", "l">>, <<"a">>}, last_name : {<<>>, <<"B", "o">>}]

\* the same letter in the other case
SwapCase(c) ==
    CASE c = "A" -> "a" [] c = "a" -> "A"
      [] c = "B" -> "b" [] c = "b" -> "B"
      [] c = "L" -> "l" [] c = "l" -> "L"
      [] c = "O" -> "o" [] c = "o" -> "O"
      [] OTHER -> c

HasLetter(str) == \E k \in 1..Len(str) : ~IsSpace(str[k])

NameLen(c) == Len(c.first_name) + Len(c.last_name)

InitNames ==
    /\ MatcherIdle
    /\ CsvIdle
    /\ ClientIdle
    /\ PeerIdle
    /\ MessagesIdle
    /\ nm_base \in NamePool
    /\ nm_var = nm_base
    /\ nm_stretched = FALSE
    /\ nm_keys = <<>>

\* the second spelling changes the case of one letter
FlipCase ==
    /\ nm_keys = <<>>
    /\ \E f \in {"first_name", "last_name"} :
          \E k \in 1..Len(nm_var[f]) :
              /\ SwapCase(nm_var[f][k]) # nm_var[f][k]
              /\ nm_var' = [nm_var EXCEPT ![f][k] = SwapCase(@)]
    /\ UNCHANGED <<nm_base, nm_stretched, nm_keys>>
    /\ UNCHANGED <<matcher_vars, csv_vars, client_vars,
                   peer_vars, msg_vars>>

\* the second spelling gets white space in front of the full name
PadFront ==
    /\ nm_keys = <<>>
    /\ NameLen(nm_var) < MaxNameLen
    /\ nm_var' = [nm_var EXCEPT !.first_name = <<" ">> \o @]
    /\ UNCHANGED <<nm_base, nm_stretched, nm_keys>>
    /\ UNCHANGED <<matcher_vars, csv_vars, client_vars,
                   peer_vars, msg_vars>>

\* the second spelling gets white space behind the full name
PadBack ==
    /\ nm_keys = <<>>
    /\ NameLen(nm_var) < MaxNameLen
    /\ nm_var' = [nm_var EXCEPT !.last_name = @ \o <<" ">>]
    /\ UNCHANGED <<nm_base, nm_stretched, nm_keys>>
    /\ UNCHANGED <<matcher_vars, csv_vars, client_vars,
                   peer_vars, msg_vars>>

\* the second spelling gets more white space between first and last name
StretchInner ==
    /\ nm_keys = <<>>
    /\ NameLen(nm_var) < MaxNameLen
    /\ HasLetter(nm_var.first_name)
    /\ HasLetter(nm_var.last_name)
    /\ \/ nm_var' = [nm_var EXCEPT !.first_name = @ \o <<" ">>]
       \/ nm_var' = [nm_var EXCEPT !.last_name = <<" ">> \o @]
    /\ nm_stretched' = TRUE
    /\ UNCHANGED <<nm_base, nm_keys>>
    /\ UNCHANGED <<matcher_vars, csv_vars, client_vars,
                   peer_vars, msg_vars>>

\* both contacts are asked for their normalized_name
Normalize ==
    /\ nm_keys = <<>>
    /\ nm_keys' = <<normalized_name(nm_base), normalized_name(nm_var)>>
    /\ UNCHANGED <<nm_base, nm_var, nm_stretched>>
    /\ UNCHANGED <<matcher_vars, csv_vars, client_vars,
                   peer_vars, msg_vars>>

NextNames ==
    \/ FlipCase
    \/ PadFront
    \/ PadBack
    \/ StretchInner
    \/ Normalize

SpecNames == InitNames /\ [][NextNames]_vars

\* ---------------------------------------------------- parse_linkedin_csv
\* The file is a list of lines and a line the list of its cells, as csv.reader
\* yields them: an empty line is the empty list.

\* the spellings _build_header_map looks for, per field, in its order
header_aliases ==
    [first_name |->
        <<<<"f", "i", "r", "s", "t", " ", "n", "a", "m", "e">>,
          <<"f", "i", "r", "s", "t", "n", "a", "m", "e">>,
          <<"f", "i", "r", "s", "t", "_", "n", "a", "m", "e">>>>,
     last_name |->
        <<<<"l", "a", "s", "t", " ", "n", "a", "m", "e">>,
          <<"l", "a", "s", "t", "n", "a", "m", "e">>,
          <<"l", "a", "s", "t", "_", "n", "a", "m", "e">>>>,
     email |->
        <<<<"e", "m", "a", "i", "l", " ", "a", "d", "d", "r", "e", "s", "s">>,
          <<"e", "m", "a", "i", "l">>,
          <<"e", "m", "a", "i", "l", "a", "d", "d", "r", "e", "s", "s">>,
          <<"e", "m", "a", "i", "l", "_", "a", "d", "d", "r", "e", "s", "s">>>>,
     company |->
        <<<<"c", "o", "m", "p", "a", "n", "y">>,
          <<"o", "r", "g", "a", "n", "i", "z", "a", "t", "i", "o", "n">>,
          <<"e", "m", "p", "l", "o", "y", "e", "r">>>>,
     role |->
        <<<<"p", "o", "s", "i", "t", "i", "o", "n">>,
          <<"t", "i", "t", "l", "e">>,
          <<"j", "o", "b", " ", "t", "i", "t", "l", "e">>,
          <<"r", "o", "l", "e">>>>,
     linkedin_url |->
        <<<<"u", "r", "l">>,
          <<"p", "r", "o", "f", "i", "l", "e", " ", "u", "r", "l">>,
          <<"l", "i", "n", "k", "e", "d", "i", "n", " ", "u", "r", "l">>,
          <<"p", "r", "o", "f", "i", "l", "e">>>>]

FieldNames ==
    {"first_name", "last_name", "email", "company", "role", "linkedin_url"}

\* the first lines a file is given: none of its cells, or some header cells
HeaderLines ==
    {<<>>,
     <<<<"F", "i", "r", "s", "t", " ", "N", "a", "m", "e">>,
       <<"L", "a", "s", "t", " ", "N", "a", "m", "e">>,
       <<"E", "m", "a", "i", "l", " ", "A", "d", "d", "r", "e", "s", "s">>>>,
     <<<<" ", "F", "I", "R", "S", "T", "N", "A", "M", "E", " ">>,
       <<"C", "o", "m", "p", "a", "n", "y">>,
       <<"p", "r", "o", "f", "i", "l", "e">>>>,
     <<<<"E", "m", "a", "i", "l">>,
       <<"P", "o", "s", "i", "t", "i", "o", "n">>>>}

\* the other lines: empty, full, padded, without a name, too short, too long
DataLines ==
    {<<>>,
     <<<<"A", "l">>, <<"B", "o">>, <<"e", "@">>>>,
     <<<<" ", "A", "l", " ">>, <<>>, <<" ">>>>,
     <<<<>>, <<" ">>, <<"e", "@">>>>,
     <<<<"A", "l">>>>,
     <<<<>>, <<"B", "o">>, <<"e", "@">>, <<"x">>>>}

\* the last position at which a list holds x
LastIndex(list, x) ==
    CHOOSE k \in 1..Len(list) :
        list[k] = x /\ \A k2 \in 1..Len(list) : list[k2] = x => k2 <= k

\* {h.lower().strip(): h for h in headers}
normalized_headers(headers) ==
    [key \in {strip(lower(headers[k])) : k \in 1..Len(headers)} |->
        headers[CHOOSE k \in 1..Len(headers) :
                    /\ strip(lower(headers[k])) = key
                    /\ \A k2 \in 1..Len(headers) :
                          strip(lower(headers[k2])) = key => k2 <= k]]

\* _build_header_map: per field the header of the first spelling that is there
build_header_map(headers) ==
    LET normalized == normalized_headers(headers)
        found(f) == {a \in 1..Len(header_aliases[f]) :
                        header_aliases[f][a] \in DOMAIN normalized}
        first(f) == CHOOSE a \in found(f) : \A a2 \in found(f) : a <= a2
    IN [f \in {f2 \in FieldNames : found(f2) # {}} |->
           normalized[header_aliases[f][first(f)]]]

\* the row csv.DictReader makes of a line: later columns of the same header
\* win, columns the line is too short for hold None
row_dict(fieldnames, line) ==
    [h \in {fieldnames[k] : k \in 1..Len(fieldnames)} |->
        IF LastIndex(fieldnames, h) <= Len(line)
        THEN line[LastIndex(fieldnames, h)] ELSE None]

\* what an expression yields when it raises AttributeError
AttributeError == <<"AttributeError">>

\* a field read that returns the cell as it is
get_field_unstripped(row, hmap, field, default) ==
    IF field \notin DOMAIN hmap THEN default
    ELSE IF row[hmap[field]] = None THEN AttributeError
    ELSE IF row[hmap[field]] # <<>> THEN row[hmap[field]] ELSE default

\* _get_field: None.strip() raises AttributeError
get_field(row, hmap, field, default) ==
    IF field \notin DOMAIN hmap THEN default
    ELSE IF row[hmap[field]] = None THEN AttributeError
    ELSE IF strip(row[hmap[field]]) # <<>> THEN strip(row[hmap[field]])
    ELSE default

\* _parse_row: raises AttributeError, or returns the set of at most one
\* Contact (the empty set for "return None")
parse_row(row, hmap) ==
    LET first_name == get_field(row, hmap, "first_name", <<>>)
        last_name == get_field(row, hmap, "last_name", <<>>)
        email == get_field(row, hmap, "email", None)
        company == get_field(row, hmap, "company", None)
        role == get_field(row, hmap, "role", None)
        linkedin_url == get_field(row, hmap, "linkedin_url", None)
    IN IF first_name = AttributeError \/ last_name = AttributeError
       THEN [raises |-> TRUE, contact |-> {}]
       ELSE IF first_name = <<>> /\ last_name = <<>>
       THEN [raises |-> FALSE, contact |-> {}]
       ELSE IF AttributeError \in {email, company, role, linkedin_url}
       THEN [raises |-> TRUE, contact |-> {}]
       ELSE [raises |-> FALSE,
             contact |->
               {[first_name |-> first_name, last_name |-> last_name,
                 email |-> email, phone |-> None, company |-> company,
                 role |-> role, notes |-> None,
                 linkedin_url |-> linkedin_url]}]

\* the files of at most MaxLines lines
Files ==
    {<<>>} \cup
    {<<h>> \o rows : h \in HeaderLines,
                     rows \in SeqsUpTo(DataLines, MaxLines - 1)}

\* one call of parse_linkedin_csv(csv_path); a path that does not exist has
\* no content
InitCsv ==
    /\ MatcherIdle /\ NamesIdle /\ ClientIdle
    /\ PeerIdle /\ MessagesIdle
    /\ csv_exists \in BOOLEAN
    /\ csv_file \in (IF csv_exists THEN Files ELSE {<<>>})
    /\ csv_pc = "call"
    /\ csv_opened = FALSE
    /\ csv_row = 0
    /\ header_map = EmptyDict
    /\ contacts = <<>>
    /\ csv_src = <<>>
    /\ csv_raised = "none"

\* a check that lets every path through
path_missing_unchecked(exists) == FALSE

\* not csv_path.exists()
path_missing(exists) == ~exists

\* lines 21-23
CheckExists ==
    /\ csv_pc = "call"
    /\ IF path_missing(csv_exists)
       THEN csv_pc' = "raised" /\ csv_raised' = "FileNotFoundError"
       ELSE csv_pc' = "open" /\ UNCHANGED csv_raised
    /\ UNCHANGED <<csv_exists, csv_file, csv_opened, csv_row, header_map,
                   contacts, csv_src>>
    /\ UNCHANGED <<matcher_vars, name_vars, client_vars,
                   peer_vars, msg_vars>>

\* line 27: open() of a path that is not there raises FileNotFoundError
Open ==
    /\ csv_pc = "open"
    /\ csv_opened' = TRUE
    /\ IF csv_exists
       THEN csv_pc' = "header" /\ UNCHANGED csv_raised
       ELSE csv_pc' = "raised" /\ csv_raised' = "FileNotFoundError"
    /\ UNCHANGED <<csv_exists, csv_file, csv_row, header_map, contacts,
                   csv_src>>
    /\ UNCHANGED <<matcher_vars, name_vars, client_vars,
                   peer_vars, msg_vars>>

\* reader.fieldnames: the first line, None when there is no line
fieldnames_of(file) == IF file = <<>> THEN None ELSE file[1]

\* a test that only asks whether a first line was read
has_headers_if_read(fieldnames) == fieldnames # None

\* "if reader.fieldnames": None and the empty list are falsy
has_headers(fieldnames) == fieldnames # None /\ fieldnames # <<>>

\* lines 29-35
ReadHeader ==
    /\ csv_pc = "header"
    /\ IF has_headers(fieldnames_of(csv_file))
       THEN /\ header_map' = build_header_map(fieldnames_of(csv_file))
            /\ csv_row' = 2
            /\ csv_pc' = "rows"
            /\ UNCHANGED csv_raised
       ELSE /\ csv_pc' = "raised"
            /\ csv_raised' = "ValueError"
            /\ UNCHANGED <<header_map, csv_row>>
    /\ UNCHANGED <<csv_exists, csv_file, csv_opened, contacts, csv_src>>
    /\ UNCHANGED <<matcher_vars, name_vars, client_vars,
                   peer_vars, msg_vars>>

\* lines 37-40, one data line; csv.DictReader skips the empty lines
RowStep ==
    /\ csv_pc = "rows"
    /\ csv_row <= Len(csv_file)
    /\ LET line == csv_file[csv_row]
           parsed == parse_row(row_dict(csv_file[1], line), header_map)
       IN IF line = <<>>
          THEN /\ csv_row' = csv_row + 1
               /\ UNCHANGED <<csv_pc, csv_raised, contacts, csv_src>>
          ELSE IF parsed.raises
          THEN /\ csv_pc' = "raised"
               /\ csv_raised' = "AttributeError"
               /\ UNCHANGED <<csv_row, contacts, csv_src>>
          ELSE /\ csv_row' = csv_row + 1
               /\ contacts' = IF parsed.contact = {} THEN contacts
                               ELSE Append(contacts, The(parsed.contact))
               /\ csv_src' = IF parsed.contact = {} THEN csv_src
                              ELSE Append(csv_src, csv_row)
               /\ UNCHANGED <<csv_pc, csv_raised>>
    /\ UNCHANGED <<csv_exists, csv_file, csv_opened, header_map>>
    /\ UNCHANGED <<matcher_vars, name_vars, client_vars,
                   peer_vars, msg_vars>>

\* line 42
ReturnContacts ==
    /\ csv_pc = "rows"
    /\ csv_row > Len(csv_file)
    /\ csv_pc' = "returned"
    /\ UNCHANGED <<csv_exists, csv_file, csv_opened, csv_row, header_map,
                   contacts, csv_src, csv_raised>>
    /\ UNCHANGED <<matcher_vars, name_vars, client_vars,
                   peer_vars, msg_vars>>

NextCsv ==
    \/ CheckExists
    \/ Open
    \/ ReadHeader
    \/ RowStep
    \/ ReturnContacts

SpecCsv == InitCsv /\ [][NextCsv]_vars

\* ------------------------------------------------------------ _get_client
\* Threads call _get_client() concurrently. client is the module global
\* _client: 0 for None, else the number of the instance; client_lock is 0
\* when free, else the thread that holds it.

Threads == 1..NumThreads

InitClient ==
    /\ MatcherIdle /\ NamesIdle /\ CsvIdle
    /\ PeerIdle /\ MessagesIdle
    /\ th_pc = [t \in Threads |-> "idle"]
    /\ th_calls = [t \in Threads |-> 0]
    /\ th_got = [t \in Threads |-> <<>>]
    /\ client = 0
    /\ client_lock = 0
    /\ constructed = 0
    /\ authenticated = {}

\* a thread enters _get_client()
Call(t) ==
    /\ th_pc[t] = "idle"
    /\ th_calls[t] < MaxCalls
    /\ th_calls' = [th_calls EXCEPT ![t] = @ + 1]
    /\ th_pc' = [th_pc EXCEPT ![t] = "check1"]
    /\ UNCHANGED <<th_got, client, client_lock, constructed, authenticated>>
    /\ UNCHANGED <<matcher_vars, name_vars, csv_vars,
                   peer_vars, msg_vars>>

\* line 17: if _client is None, without the lock
Check1(t) ==
    /\ th_pc[t] = "check1"
    /\ th_pc' = [th_pc EXCEPT ![t] = IF client = 0 THEN "acquire" ELSE "return"]
    /\ UNCHANGED <<th_calls, th_got, client, client_lock, constructed,
                   authenticated>>
    /\ UNCHANGED <<matcher_vars, name_vars, csv_vars,
                   peer_vars, msg_vars>>

\* line 18: with _client_lock
Acquire(t) ==
    /\ th_pc[t] = "acquire"
    /\ client_lock = 0
    /\ client_lock' = t
    /\ th_pc' = [th_pc EXCEPT ![t] = "check2"]
    /\ UNCHANGED <<th_calls, th_got, client, constructed, authenticated>>
    /\ UNCHANGED <<matcher_vars, name_vars, csv_vars,
                   peer_vars, msg_vars>>

\* a test under the lock that does not look at _client again
second_check_skipped(c) == TRUE

\* line 20: if _client is None, under the lock
second_check(c) == c = 0

Check2(t) ==
    /\ th_pc[t] = "check2"
    /\ th_pc' = [th_pc EXCEPT ![t] =
                    IF second_check(client) THEN "construct" ELSE "release"]
    /\ UNCHANGED <<th_calls, th_got, client, client_lock, constructed,
                   authenticated>>
    /\ UNCHANGED <<matcher_vars, name_vars, csv_vars,
                   peer_vars, msg_vars>>

\* line 21: _client = GoogleContactsClient()
Construct(t) ==
    /\ th_pc[t] = "construct"
    /\ constructed' = constructed + 1
    /\ client' = constructed + 1
    /\ th_pc' = [th_pc EXCEPT ![t] = "auth"]
    /\ UNCHANGED <<th_calls, th_got, client_lock, authenticated>>
    /\ UNCHANGED <<matcher_vars, name_vars, csv_vars,
                   peer_vars, msg_vars>>

\* line 22: _client.authenticate() returns
AuthenticateOk(t) ==
    /\ th_pc[t] = "auth"
    /\ authenticated' = authenticated \cup {client}
    /\ th_pc' = [th_pc EXCEPT ![t] = "release"]
    /\ UNCHANGED <<th_calls, th_got, client, client_lock, constructed>>
    /\ UNCHANGED <<matcher_vars, name_vars, csv_vars,
                   peer_vars, msg_vars>>

\* line 22: _client.authenticate() raises; the with block is left by the
\* exception
AuthenticateRaises(t) ==
    /\ th_pc[t] = "auth"
    /\ th_pc' = [th_pc EXCEPT ![t] = "unwind"]
    /\ UNCHANGED <<th_calls, th_got, client, client_lock, constructed,
                   authenticated>>
    /\ UNCHANGED <<matcher_vars, name_vars, csv_vars,
                   peer_vars, msg_vars>>

\* the end of the with block
Release(t) ==
    /\ th_pc[t] = "release"
    /\ client_lock' = 0
    /\ th_pc' = [th_pc EXCEPT ![t] = "return"]
    /\ UNCHANGED <<th_calls, th_got, client, constructed, authenticated>>
    /\ UNCHANGED <<matcher_vars, name_vars, csv_vars,
                   peer_vars, msg_vars>>

\* the lock is released while the exception leaves the call, which returns
\* nothing
Unwind(t) ==
    /\ th_pc[t] = "unwind"
    /\ client_lock' = 0
    /\ th_pc' = [th_pc EXCEPT ![t] = "idle"]
    /\ UNCHANGED <<th_calls, th_got, client, constructed, authenticated>>
    /\ UNCHANGED <<matcher_vars, name_vars, csv_vars,
                   peer_vars, msg_vars>>

\* line 23: return _client
ReturnClient(t) ==
    /\ th_pc[t] = "return"
    /\ th_got' = [th_got EXCEPT ![t] = Append(@, client)]
    /\ th_pc' = [th_pc EXCEPT ![t] = "idle"]
    /\ UNCHANGED <<th_calls, client, client_lock, constructed, authenticated>>
    /\ UNCHANGED <<matcher_vars, name_vars, csv_vars,
                   peer_vars, msg_vars>>

NextClient ==
    \/ \E t \in Threads : Call(t)
    \/ \E t \in Threads : Check1(t)
    \/ \E t \in Threads : Acquire(t)
    \/ \E t \in Threads : Check2(t)
    \/ \E t \in Threads : Construct(t)
    \/ \E t \in Threads : AuthenticateOk(t)
    \/ \E t \in Threads : AuthenticateRaises(t)
    \/ \E t \in Threads : Release(t)
    \/ \E t \in Threads : Unwind(t)
    \/ \E t \in Threads : ReturnClient(t)

SpecClient == InitClient /\ [][NextClient]_vars

\* --------------------------------------- save_message, mark_message_sent
\* The disk is msg_dirs, the event directories, and msg_files, the text of
\* every file by its path <<event_id, file name>>. A JSON text is kept as the
\* object it spells, every value in its JSON spelling.

WordChars ==
    {"a", "b", "c", "d", "e", "f", "g", "h", "i", "j", "k", "l", "m", "n", "o",
     "p", "q", "r", "s", "t", "u", "v", "w", "x", "y", "z", "0", "1", "2", "3",
     "4", "5", "6", "7", "8", "9", "_"}

\* re.sub(r"[^\w\s-]", "", s)
only_safe(s) ==
    SelectSeq(s, LAMBDA c : c \in WordChars \/ IsSpace(c) \/ c = "-")

\* re.sub(r"\s+", "_", s): every run of white space becomes one underscore
RECURSIVE underscored(_)
underscored(s) ==
    IF s = <<>> THEN <<>>
    ELSE IF IsSpace(Head(s))
    THEN IF Len(s) >= 2 /\ IsSpace(s[2]) THEN underscored(Tail(s))
         ELSE <<"_">> \o underscored(Tail(s))
    ELSE <<Head(s)>> \o underscored(Tail(s))

\* s.strip("_")
RECURSIVE strip_underscores(_)
strip_underscores(s) ==
    IF s = <<>> THEN <<>>
    ELSE IF Head(s) = "_" THEN strip_underscores(Tail(s))
    ELSE IF s[Len(s)] = "_" THEN strip_underscores(SubSeq(s, 1, Len(s) - 1))
    ELSE s

\* _sanitize_filename
sanitize_filename(name) == strip_underscores(underscored(only_safe(lower(name))))

\* event_dir / (_sanitize_filename(contact_name) + ".json")
file_path(event_id, contact_name) ==
    <<event_id, sanitize_filename(contact_name) \o <<".", "j", "s", "o", "n">>>>

\* json.dump of an Optional[str], and json.load of it
dump_str(v) == IF v = None THEN <<"null">> ELSE <<"\"">> \o v \o <<"\"">>

load_str(t) == IF t = <<"null">> THEN None ELSE SubSeq(t, 2, Len(t) - 1)

dump_bool(v) == IF v THEN <<"true">> ELSE <<"false">>

load_bool(t) == t = <<"true">>

\* json.dump(data, f): the time stamps stay the numbers that stand for them
json_dump(data) ==
    [k \in DOMAIN data |->
        CASE k = "contact" -> [f \in DOMAIN data[k] |-> dump_str(data[k][f])]
          [] k \in {"approved", "sent"} -> dump_bool(data[k])
          [] k \in {"generated_at", "sent_at"} -> data[k]
          [] OTHER -> dump_str(data[k])]

\* json.load(f)
json_load(text) ==
    [k \in DOMAIN text |->
        CASE k = "contact" -> [f \in DOMAIN text[k] |-> load_str(text[k][f])]
          [] k \in {"approved", "sent"} -> load_bool(text[k])
          [] k \in {"generated_at", "sent_at"} -> text[k]
          [] OTHER -> load_str(text[k])]

\* the arguments the calls are made with
EventIds == {"e1", "e2"}

ContactNames ==
    {<<"A", "l", " ", "B", "o">>,
     <<"a", "l", " ", " ", "b", "o", "!">>,
     <<"D", "i">>}

\* message and channel
Messages == {[message |-> <<"h", "i">>, channel |-> <<"S", "M", "S">>],
             [message |-> <<"n", "u", "l", "l">>,
              channel |-> <<"L", "i", "n", "k", "e", "d", "I", "n">>]}

\* the email the caller knows for a contact
email_of(contact_name) ==
    IF contact_name = <<"D", "i">> THEN None ELSE <<"e", "@">>

InitMessages ==
    /\ MatcherIdle /\ NamesIdle /\ CsvIdle /\ ClientIdle /\ PeerIdle
    /\ msg_dirs = {}
    /\ msg_files = EmptyDict
    /\ msg_clock = 0
    /\ msg_log = <<>>

\* lines 59-70: the dict save_message writes
new_message(contact_name, contact_email, contact_phone, message, channel, now) ==
    [contact |-> [name |-> contact_name, email |-> contact_email,
                  phone |-> contact_phone],
     channel |-> channel,
     message |-> message,
     generated_at |-> now,
     approved |-> TRUE,
     sent |-> FALSE]

SaveMessage(event_id, contact_name, contact_email, contact_phone, message, channel) ==
    /\ msg_clock < MaxMessageCalls
    /\ msg_clock' = msg_clock + 1
    /\ msg_dirs' = msg_dirs \cup {event_id}
    /\ msg_files' =
          DictSet(msg_files, file_path(event_id, contact_name),
                  json_dump(new_message(contact_name, contact_email,
                                        contact_phone, message, channel,
                                        msg_clock + 1)))
    /\ msg_log' = Append(msg_log, [op |-> "save",
                                   path |-> file_path(event_id, contact_name),
                                   reply |-> "saved"])
    /\ UNCHANGED <<matcher_vars, name_vars, csv_vars, client_vars, peer_vars>>

\* an update that writes the time stamp and leaves the flag as it is
marked_only_stamp(data, now) ==
    [k \in DOMAIN data \cup {"sent_at"} |->
        IF k = "sent_at" THEN now ELSE data[k]]

\* lines 150-151: data["sent"] = True; data["sent_at"] = now
marked(data, now) ==
    [k \in DOMAIN data \cup {"sent", "sent_at"} |->
        IF k = "sent" THEN TRUE ELSE IF k = "sent_at" THEN now ELSE data[k]]

MarkMessageSent(event_id, contact_name) ==
    /\ msg_clock < MaxMessageCalls
    /\ msg_clock' = msg_clock + 1
    /\ LET filepath == file_path(event_id, contact_name)
       IN IF filepath \notin DOMAIN msg_files
          THEN /\ msg_log' = Append(msg_log, [op |-> "mark", path |-> filepath,
                                              reply |-> "not found"])
               /\ UNCHANGED <<msg_dirs, msg_files>>
          ELSE /\ msg_files' =
                     DictSet(msg_files, filepath,
                             json_dump(marked(json_load(msg_files[filepath]),
                                              msg_clock + 1)))
               /\ msg_log' = Append(msg_log, [op |-> "mark", path |-> filepath,
                                              reply |-> "marked"])
               /\ UNCHANGED msg_dirs
    /\ UNCHANGED <<matcher_vars, name_vars, csv_vars, client_vars, peer_vars>>

NextMessages ==
    \/ \E event_id \in EventIds, contact_name \in ContactNames, m \in Messages :
          SaveMessage(event_id, contact_name, email_of(contact_name), None,
                      m.message, m.channel)
    \/ \E event_id \in EventIds, contact_name \in ContactNames :
          MarkMessageSent(event_id, contact_name)

SpecMessages == InitMessages /\ [][NextMessages]_vars

TypeOK ==
    /\ pc \in {"call", "index", "match", "tail", "done", "raised"}
    /\ run \in 1..2
    /\ Len(prov) = Len(matched)
    /\ used_linkedin_indices \subseteq 1..Len(linkedin_contacts)

\* ------------------------------------------------------------ properties
Secondaries == 1..Len(linkedin_contacts)
Records == 1..Len(prov)
Pairings == {a \in Records : prov[a].g # 0 /\ prov[a].l # 0}

\* C1: at-most-once consumption: no two output records were built from the
\* same secondary index, be it as a pairing or as a stand-alone record.
C1_AtMostOnce ==
    \A a, b \in Records :
        (a # b /\ prov[a].l # 0) => prov[a].l # prov[b].l

\* two primaries with the same email competed for the secondaries, one
\* secondary was paired and another one was emitted alone
C1_Witness ==
    /\ pc = "done"
    /\ \E a, b \in Pairings :
          /\ a # b
          /\ prov[a].tier = "email"
          /\ google_contacts[prov[a].g].email = google_contacts[prov[b].g].email
    /\ Len(linkedin_contacts) = MaxSecondary

\* C2: length law: the output has len(primary) records plus one for every
\* secondary index that was never claimed.
C2_LengthLaw ==
    pc = "done" =>
        Len(matched) = Len(google_contacts)
                       + Cardinality(Secondaries \ used_linkedin_indices)

C2_Witness ==
    /\ pc = "done"
    /\ used_linkedin_indices # {}
    /\ Secondaries \ used_linkedin_indices # {}
    /\ Len(matched) = Len(google_contacts) + 1

\* the secondary positions whose email equals p's, case-insensitively
SameEmail(p) ==
    {j \in Secondaries :
        /\ Truthy(p.email)
        /\ Truthy(linkedin_contacts[j].email)
        /\ lower(linkedin_contacts[j].email) = lower(p.email)}

\* the secondary positions with p's normalized name
SameName(p) ==
    {j \in Secondaries :
        /\ Truthy(normalized_name(p))
        /\ normalized_name(linkedin_contacts[j]) = normalized_name(p)}

\* the secondary positions with p's normalized name and normalized company
SameNameCompany(p) ==
    {j \in SameName(p) :
        /\ Truthy(normalized_company(p))
        /\ normalized_company(linkedin_contacts[j]) = normalized_company(p)}

Max(S) == CHOOSE x \in S : \A y \in S : x >= y
Min(S) == CHOOSE x \in S : \A y \in S : x <= y

\* the output records that stem from a primary record
FromPrimary == {a \in Records : prov[a].g # 0}

\* C3 as stated: a primary whose email equals that of some secondary that is
\* unclaimed when the primary is processed is paired with such a secondary
\* with confidence HIGH.
C3_AsStated ==
    \A a \in FromPrimary :
        LET free == SameEmail(google_contacts[prov[a].g]) \ prov[a].before
        IN free # {} =>
              /\ prov[a].l \in free
              /\ matched[a].match_confidence = "High"

\* C3 amended: a primary whose email equals, case-insensitively, that of a
\* secondary is paired with confidence HIGH with the last secondary carrying
\* that email, provided that one is unclaimed when the primary is processed.
C3_EmailMatch ==
    \A a \in FromPrimary :
        LET same == SameEmail(google_contacts[prov[a].g])
        IN (same # {} /\ Max(same) \notin prov[a].before) =>
              /\ prov[a].l = Max(same)
              /\ prov[a].tier = "email"
              /\ matched[a].match_confidence = "High"

\* an email pairing of two emails that differ in case, chosen among two
\* secondaries with that email
C3_Witness ==
    \E a \in FromPrimary :
        LET p == google_contacts[prov[a].g]
            same == SameEmail(p)
        IN /\ Cardinality(same) >= 2
           /\ prov[a].l = Max(same)
           /\ p.email # linkedin_contacts[prov[a].l].email
           /\ matched[a].match_confidence = "High"

\* C4 as stated: a primary for which an unclaimed secondary with the same
\* normalized name and normalized company exists when it is processed is
\* paired with confidence HIGH, never by the name-only tier.
C4_AsStated ==
    \A a \in FromPrimary :
        SameNameCompany(google_contacts[prov[a].g]) \ prov[a].before # {} =>
            /\ prov[a].tier # "name"
            /\ matched[a].match_confidence = "High"

\* C4 amended: a primary that the email tier did not pair, and for which the
\* last secondary with its normalized name and company is unclaimed when it is
\* processed, is paired with that secondary by the name + company tier with
\* confidence HIGH, never by the name-only tier.
C4_TierPrecedence ==
    \A a \in FromPrimary :
        LET same == SameNameCompany(google_contacts[prov[a].g])
        IN (same # {} /\ Max(same) \notin prov[a].before) =>
              /\ matched[a].match_confidence = "High"
              /\ prov[a].tier # "name"
              /\ prov[a].tier # "email" =>
                    (prov[a].tier = "name_company" /\ prov[a].l = Max(same))

\* a name + company pairing although an earlier secondary with the same name
\* was free for the name-only tier
C4_Witness ==
    \E a \in FromPrimary :
        LET p == google_contacts[prov[a].g]
        IN /\ prov[a].tier = "name_company"
           /\ \E j \in SameName(p) \ prov[a].before : j < prov[a].l

\* C5: a name-only pairing selects the smallest unclaimed secondary position
\* among those with the primary's normalized name.
C5_NameTieBreak ==
    \A a \in FromPrimary :
        prov[a].tier = "name" =>
            prov[a].l = Min(SameName(google_contacts[prov[a].g]) \ prov[a].before)

\* a name-only pairing with two unclaimed candidates
C5_Witness ==
    \E a \in FromPrimary :
        /\ prov[a].tier = "name"
        /\ Cardinality(SameName(google_contacts[prov[a].g]) \ prov[a].before) >= 2

\* C6: determinism: a second invocation on the same two lists returns the
\* same records in the same order, made by the same pairings and tiers.
C6_Determinism ==
    (run = 2 /\ pc = "done") => (matched = first_result /\ prov = first_prov)

\* the second invocation has returned, after a first one that claimed a
\* secondary and left another unclaimed
C6_Witness ==
    /\ run = 2
    /\ pc = "done"
    /\ Pairings # {}
    /\ Secondaries \ used_linkedin_indices # {}
    /\ Len(first_result) >= 2

\* the r-th smallest element of a set of positions
Nth(S, r) == CHOOSE x \in S : Cardinality({y \in S : y <= x}) = r

\* C7: output ordering: record k stems from primary k for every primary, and
\* the records after them are the never-claimed secondaries in increasing
\* position, each with confidence NONE.
C7_OutputOrder ==
    pc = "done" =>
        LET n == Len(google_contacts)
            free == Secondaries \ used_linkedin_indices
        IN /\ Len(matched) = n + Cardinality(free)
           /\ \A k \in 1..n :
                 /\ prov[k].g = k
                 /\ matched[k].notes = google_contacts[k].notes
                 /\ matched[k].phone = google_contacts[k].phone
           /\ \A r \in 1..Cardinality(free) :
                 /\ prov[n + r].g = 0
                 /\ prov[n + r].l = Nth(free, r)
                 /\ matched[n + r].match_confidence = "N/A"
                 /\ matched[n + r].linkedin_url =
                        linkedin_contacts[Nth(free, r)].linkedin_url

\* two different primaries, one of them paired, and an unclaimed secondary
C7_Witness ==
    /\ pc = "done"
    /\ Len(google_contacts) = 2
    /\ google_contacts[1].notes # google_contacts[2].notes
    /\ Pairings # {}
    /\ Secondaries \ used_linkedin_indices # {}

\* C8: confidence labelling: HIGH exactly for the pairings of the email and
\* name + company tiers, MEDIUM exactly for the pairings of the name-only
\* tier, NONE exactly for the records of a single source record.
C8_Confidence ==
    \A a \in Records :
        /\ matched[a].match_confidence = "High" <=>
              (a \in Pairings /\ prov[a].tier \in {"email", "name_company"})
        /\ matched[a].match_confidence = "Medium" <=>
              (a \in Pairings /\ prov[a].tier = "name")
        /\ matched[a].match_confidence = "N/A" <=> a \notin Pairings

\* a run whose output has a name + company pairing and a record of one
\* source only
C8_Witness ==
    /\ pc = "done"
    /\ \E a \in Pairings : prov[a].tier = "name_company"
    /\ \E a \in Records : a \notin Pairings

PreferredFields == {"first_name", "last_name", "email", "company", "role"}

\* C9: in every pairing each of first_name, last_name, email, company and
\* role is the primary's value when that is non-empty, else the secondary's.
C9_PrimaryPreferred ==
    \A a \in Pairings :
        LET p == google_contacts[prov[a].g]
            s == linkedin_contacts[prov[a].l]
        IN \A f \in PreferredFields :
              matched[a][f] = IF Truthy(p[f]) THEN p[f] ELSE s[f]

\* a pairing in which one field comes from the secondary because the primary
\* lacks it and another one from the primary although the secondary differs
C9_Witness ==
    \E a \in Pairings :
        LET p == google_contacts[prov[a].g]
            s == linkedin_contacts[prov[a].l]
        IN /\ \E f \in PreferredFields :
                 ~Truthy(p[f]) /\ Truthy(s[f]) /\ matched[a][f] = s[f]
           /\ \E f \in PreferredFields :
                 Truthy(p[f]) /\ Truthy(s[f]) /\ p[f] # s[f] /\ matched[a][f] = p[f]

\* C10 as stated: in every pairing the phone is the primary's phone when that
\* is present and the secondary's phone otherwise.
C10_AsStated ==
    \A a \in Pairings :
        LET p == google_contacts[prov[a].g]
            s == linkedin_contacts[prov[a].l]
        IN IF Truthy(p.phone) THEN matched[a].phone = p.phone
           ELSE IF Truthy(s.phone) THEN matched[a].phone = s.phone
           ELSE ~Truthy(matched[a].phone)

\* C11: exclusive fields: notes come from the primary side only and
\* profile_url from the secondary side only; each is empty when its side is
\* absent, whatever the other side carries.
C11_ExclusiveFields ==
    \A a \in Records :
        /\ matched[a].notes =
              IF prov[a].g # 0 THEN google_contacts[prov[a].g].notes ELSE None
        /\ matched[a].linkedin_url =
              IF prov[a].l # 0 THEN linkedin_contacts[prov[a].l].linkedin_url
              ELSE None

\* a pairing whose secondary carries notes and whose primary carries a
\* profile URL, while the primary has no notes
C11_Witness ==
    \E a \in Pairings :
        /\ Truthy(linkedin_contacts[prov[a].l].notes)
        /\ ~Truthy(google_contacts[prov[a].g].notes)
        /\ Truthy(google_contacts[prov[a].g].linkedin_url)
        /\ ~Truthy(matched[a].notes)

\* C12: channel derivation: a record has the SMS channel exactly when its
\* merged phone is non-empty and the LinkedIn channel otherwise; there is no
\* third value.
C12_Channel ==
    \A a \in Records :
        /\ matched[a].channel \in {"SMS", "LinkedIn"}
        /\ matched[a].channel = "SMS" <=> Truthy(matched[a].phone)

\* a result with an SMS record and with a LinkedIn record that has neither
\* phone nor profile URL
C12_Witness ==
    /\ pc = "done"
    /\ \E a \in Records : matched[a].channel = "SMS"
    /\ \E a \in Records :
          /\ matched[a].channel = "LinkedIn"
          /\ ~Truthy(matched[a].linkedin_url)

\* two optional strings are the same value, or are both absent
SameValue(x, y) == (Truthy(x) \/ Truthy(y)) => x = y

CarriedFields == {"first_name", "last_name", "email", "phone", "company", "role"}

\* C13 as stated: a record of one source record only carries that record's
\* first_name, last_name, email, phone, company and role, has the exclusive
\* field of the absent side empty and its channel derived from the carried
\* phone.
C13_AsStated ==
    \A a \in Records \ Pairings :
        LET src == IF prov[a].g # 0 THEN google_contacts[prov[a].g]
                   ELSE linkedin_contacts[prov[a].l]
        IN /\ \A f \in CarriedFields : SameValue(matched[a][f], src[f])
           /\ prov[a].g # 0 => ~Truthy(matched[a].linkedin_url)
           /\ prov[a].g = 0 => ~Truthy(matched[a].notes)
           /\ matched[a].channel = "SMS" <=> Truthy(src.phone)

\* the loop iterations and loop exits the invocation still has to make
StepsLeft ==
    LET n == Len(google_contacts)
        m == Len(linkedin_contacts)
    IN CASE pc = "call" -> 2 * m + n + 4
         [] pc = "index" -> 2 * m + n + 4 - i
         [] pc = "match" -> m + n + 3 - i
         [] pc = "tail" -> m + 2 - i
         [] OTHER -> 0

\* the invocation stands at a statement it can execute: a loop is at an
\* element of its list or at the end of it
CanStep ==
    \/ pc = "call"
    \/ pc \in {"index", "tail"} /\ i \in 1..(Len(linkedin_contacts) + 1)
    \/ pc = "match" /\ i \in 1..(Len(google_contacts) + 1)

\* C14: totality: for every pair of lists the invocation raises no error,
\* can always take its next step until it has returned, takes only finitely
\* many steps (every step lowers StepsLeft, which is never negative), and
\* returns the empty list when both lists are empty.
C14_Totality ==
    /\ [](pc # "raised")
    /\ [](pc # "done" => CanStep)
    /\ [](StepsLeft >= 0)
    /\ [][StepsLeft' < StepsLeft]_vars
    /\ []((pc = "done" /\ google_contacts = <<>> /\ linkedin_contacts = <<>>)
            => matched = <<>>)

\* the invocation has returned for an empty primary list and a full
\* secondary list
C14_Witness ==
    /\ pc = "done"
    /\ google_contacts = <<>>
    /\ Len(linkedin_contacts) = MaxSecondary
    /\ Len(matched) = MaxSecondary

\* C15 as stated: two contacts whose names differ only in letter case, in
\* surrounding white space or in the length of inner runs of white space have
\* the same normalized_name; an empty full name has the empty key.
C15_AsStated ==
    nm_keys # <<>> =>
        /\ nm_keys[1] = nm_keys[2]
        /\ full_name(nm_base) = <<>> => nm_keys[1] = <<>>

\* C15 amended: normalized_name is the lowercased, trimmed full_name and
\* keeps inner runs of white space: two contacts whose names differ only in
\* letter case or in white space around the full name have the same
\* normalized_name, two that differ in the length of an inner run have
\* different ones; an empty full name has the empty key.
C15_NameKey ==
    nm_keys # <<>> =>
        /\ ~nm_stretched => nm_keys[1] = nm_keys[2]
        /\ nm_stretched => nm_keys[1] # nm_keys[2]
        /\ full_name(nm_base) = <<>> => nm_keys[1] = <<>>

\* two spellings that differ in case and in outer white space got the same,
\* non-empty key
C15_Witness ==
    /\ nm_keys # <<>>
    /\ ~nm_stretched
    /\ nm_keys[1] # <<>>
    /\ Len(nm_var.first_name) > Len(nm_base.first_name)
    /\ Len(nm_var.last_name) > Len(nm_base.last_name)
    /\ lstrip(nm_var.first_name) # nm_base.first_name
    /\ nm_keys[1] = nm_keys[2]

\* ---- parse_linkedin_csv

CsvFinished == csv_pc \in {"returned", "raised"}

\* the file has no line, or a first line without a cell
NoHeader == csv_file = <<>> \/ csv_file[1] = <<>>

\* the trimmed cell that line k has in the column of a field; empty when
\* there is no such column or the line ends before it
CellOf(k, field) ==
    IF field \notin DOMAIN header_map THEN <<>>
    ELSE IF LastIndex(csv_file[1], header_map[field]) > Len(csv_file[k])
    THEN <<>>
    ELSE strip(csv_file[k][LastIndex(csv_file[1], header_map[field])])

\* line k has a first or a last name
Named(k) == CellOf(k, "first_name") # <<>> \/ CellOf(k, "last_name") # <<>>

\* the data lines with a name, in file order
NamedRows ==
    SelectSeq([k \in 1..(Len(csv_file) - 1) |-> k + 1], LAMBDA k : Named(k))

\* C16 as stated: a call on a file with a header returns one record per data
\* row that has a trimmed first or last name, in row order, and none for the
\* other rows; no record has both names empty and no row raises an error.
C16_AsStated ==
    (csv_exists /\ ~NoHeader /\ CsvFinished) =>
        /\ csv_pc = "returned"
        /\ csv_src = NamedRows
        /\ \A r \in 1..Len(contacts) :
              /\ contacts[r].first_name = CellOf(csv_src[r], "first_name")
              /\ contacts[r].last_name = CellOf(csv_src[r], "last_name")
              /\ ~(contacts[r].first_name = <<>> /\ contacts[r].last_name = <<>>)

OptionalFields == {"email", "company", "role", "linkedin_url"}

\* C17 as stated: every extracted field of every record is trimmed, and is
\* absent, never the empty string, when nothing is left after trimming.
C17_AsStated ==
    \A r \in 1..Len(contacts) : \A f \in FieldNames :
        /\ contacts[r][f] # <<>>
        /\ contacts[r][f] # None => contacts[r][f] = strip(contacts[r][f])

\* C17 amended: every extracted field is the trimmed cell of its column; an
\* email, company, role or profile URL that is empty after trimming is
\* absent, a first or last name that is empty after trimming is the empty
\* string.
C17_TrimAndAbsence ==
    \A r \in 1..Len(contacts) :
        /\ \A f \in {"first_name", "last_name"} :
              /\ contacts[r][f] = CellOf(csv_src[r], f)
              /\ contacts[r][f] # None
        /\ \A f \in OptionalFields :
              /\ contacts[r][f] # <<>>
              /\ contacts[r][f] = (IF CellOf(csv_src[r], f) = <<>> THEN None
                                    ELSE CellOf(csv_src[r], f))

\* a returned record whose first name lost its surrounding blanks, whose last
\* name is the empty string and whose blank email cell became absent
C17_Witness ==
    /\ csv_pc = "returned"
    /\ \E r \in 1..Len(contacts) :
          /\ contacts[r].first_name # <<>>
          /\ contacts[r].first_name # csv_file[csv_src[r]][1]
          /\ contacts[r].last_name = <<>>
          /\ "email" \in DOMAIN header_map
          /\ csv_file[csv_src[r]][3] = <<" ">>
          /\ contacts[r].email = None

\* C18: a call on an existing file without a header row ends by raising the
\* missing-header error (ValueError "CSV file has no headers") before any row
\* is read, with no record produced; that error is raised for no other file.
C18_MissingHeader ==
    /\ (csv_exists /\ NoHeader /\ csv_pc \notin {"call", "open", "header"}) =>
          /\ csv_pc = "raised"
          /\ csv_raised = "ValueError"
          /\ csv_row = 0
          /\ contacts = <<>>
    /\ csv_raised = "ValueError" => (csv_exists /\ NoHeader)

\* the error was raised for a file whose empty first line is followed by a
\* line with a name
C18_Witness ==
    /\ csv_pc = "raised"
    /\ csv_raised = "ValueError"
    /\ Len(csv_file) >= 2
    /\ csv_file[1] = <<>>
    /\ Len(csv_file[2]) >= 2
    /\ csv_file[2][1] # <<>>
    /\ contacts = <<>>

\* C19: for a path that does not exist the call goes from its start straight
\* to FileNotFoundError: the file is never opened, no row is read and no
\* record is produced; that error is raised for no existing file.
C19_MissingFile ==
    /\ ~csv_exists =>
          /\ csv_pc \in {"call", "raised"}
          /\ csv_pc = "raised" => csv_raised = "FileNotFoundError"
          /\ ~csv_opened
          /\ csv_row = 0
          /\ contacts = <<>>
    /\ csv_raised = "FileNotFoundError" => ~csv_exists

\* the call on a missing path has raised, nothing opened
C19_Witness ==
    /\ ~csv_exists
    /\ csv_pc = "raised"
    /\ csv_raised = "FileNotFoundError"
    /\ ~csv_opened

\* ---- _get_client

\* C20: under every interleaving of the calls at most one GoogleContactsClient
\* is constructed, the global never changes once set, and every call that
\* returns returns that one instance.
C20_Singleton ==
    /\ constructed <= 1
    /\ client \in {0, constructed}
    /\ \A t \in Threads : \A k \in 1..Len(th_got[t]) :
          th_got[t][k] # 0 /\ th_got[t][k] = client

\* a thread that found _client unset at the first test is still before its
\* second test while another thread has made the instance and a call has
\* returned it
C20_Witness ==
    \E t \in Threads, u \in Threads :
        /\ t # u
        /\ constructed = 1
        /\ th_pc[t] \in {"acquire", "check2"}
        /\ Len(th_got[u]) > 0

\* ---- match_contacts: indices and tiers

\* C21: last-write-wins index keys: in a finished run an email pairing is
\* with the last
\* secondary that carries the primary's lowercased email and a name + company
\* pairing with the last secondary that carries its (normalized_name,
\* normalized_company); when that last one is claimed already the tier pairs
\* nothing, whatever earlier secondaries with the key are unclaimed.
C21_LastWriteWins ==
    pc = "done" =>
        \A a \in FromPrimary :
            LET se == SameEmail(google_contacts[prov[a].g])
                snc == SameNameCompany(google_contacts[prov[a].g])
            IN /\ prov[a].tier = "email" => (se # {} /\ prov[a].l = Max(se))
               /\ prov[a].tier = "name_company" =>
                     (snc # {} /\ prov[a].l = Max(snc))
               /\ (se # {} /\ Max(se) \in prov[a].before) =>
                     prov[a].tier # "email"
               /\ (snc # {} /\ Max(snc) \in prov[a].before) =>
                     prov[a].tier # "name_company"

\* a primary whose email is carried by two secondaries, the later one claimed
\* and the earlier one free, was not paired by the email tier
C21_Witness ==
    \E a \in FromPrimary :
        LET se == SameEmail(google_contacts[prov[a].g])
        IN /\ Cardinality(se) >= 2
           /\ Max(se) \in prov[a].before
           /\ se \ prov[a].before # {}
           /\ prov[a].tier # "email"
           /\ prov[a].l # Min(se)

\* empty or absent
Empty(v) == v = <<>> \/ v = None

\* the secondary positions without a normalized name and without an email
Keyless ==
    {j \in Secondaries :
        /\ normalized_name(linkedin_contacts[j]) = <<>>
        /\ Empty(linkedin_contacts[j].email)}

\* C22: index exclusion: in a finished run the secondary of a name + company
\* or name-only
\* pairing has a non-empty normalized_name and the secondary of an email
\* pairing a non-empty email; a secondary with neither is never claimed and
\* is returned as a NONE record of its own.
C22_IndexExclusion ==
    pc = "done" =>
        /\ \A a \in Pairings :
              /\ prov[a].tier \in {"name", "name_company"} =>
                    normalized_name(linkedin_contacts[prov[a].l]) # <<>>
              /\ prov[a].tier = "email" =>
                    ~Empty(linkedin_contacts[prov[a].l].email)
        /\ \A j \in Keyless :
              /\ j \notin used_linkedin_indices
              /\ \E a \in Records :
                    /\ prov[a].g = 0
                    /\ prov[a].l = j
                    /\ matched[a].match_confidence = "N/A"

\* the run ended with a keyless secondary although a primary has the same
\* empty name, the same company and no email either
C22_Witness ==
    /\ pc = "done"
    /\ \E j \in Keyless : \E k \in 1..Len(google_contacts) :
          /\ normalized_name(google_contacts[k]) = <<>>
          /\ Empty(google_contacts[k].email)
          /\ normalized_company(google_contacts[k]) # <<>>
          /\ normalized_company(google_contacts[k])
                = normalized_company(linkedin_contacts[j])

\* what each tier finds for the primary of record a, from the lists alone
EmailPairs(a) ==
    LET se == SameEmail(google_contacts[prov[a].g])
    IN se # {} /\ Max(se) \notin prov[a].before

NameCompanyPairs(a) ==
    LET snc == SameNameCompany(google_contacts[prov[a].g])
    IN snc # {} /\ Max(snc) \notin prov[a].before

NamePairs(a) == SameName(google_contacts[prov[a].g]) \ prov[a].before # {}

\* C23: tier fall-through: in a finished run a primary is paired by the
\* email tier when that
\* finds an unclaimed secondary, by the name + company tier exactly when the
\* email tier failed and this one does not, by the name-only tier exactly
\* when both failed and this one does not, and gets confidence NONE exactly
\* when all three fail.
C23_FallThrough ==
    pc = "done" =>
        \A a \in FromPrimary :
            LET e == EmailPairs(a)
                nc == NameCompanyPairs(a)
                n == NamePairs(a)
            IN /\ prov[a].tier = "email" <=> e
               /\ prov[a].tier = "name_company" <=> (~e /\ nc)
               /\ prov[a].tier = "name" <=> (~e /\ ~nc /\ n)
               /\ (prov[a].l = 0 /\ matched[a].match_confidence = "N/A") <=>
                     (~e /\ ~nc /\ ~n)

\* a primary whose email and whose name + company both lead to a claimed
\* secondary fell through to the name-only tier
C23_Witness ==
    \E a \in FromPrimary :
        /\ SameEmail(google_contacts[prov[a].g]) # {}
        /\ SameNameCompany(google_contacts[prov[a].g]) # {}
        /\ ~EmailPairs(a)
        /\ ~NameCompanyPairs(a)
        /\ prov[a].tier = "name"

\* C24: inputs are not mutated: no step of a run changes either input list or
\* a field of a contact in them, nor anything outside the run's own indices,
\* claimed set and output list.
C24_InputsKept ==
    [][/\ google_contacts' = google_contacts
       /\ linkedin_contacts' = linkedin_contacts
       /\ UNCHANGED <<name_vars, csv_vars, client_vars,
                      peer_vars, msg_vars>>]_vars

\* a finished run whose merged record took a field from the secondary that
\* the primary, still as given, lacks
C24_Witness ==
    /\ pc = "done"
    /\ \E a \in Pairings : \E f \in PreferredFields :
          /\ ~Truthy(google_contacts[prov[a].g][f])
          /\ Truthy(matched[a][f])
          /\ matched[a][f] = linkedin_contacts[prov[a].l][f]
          /\ google_contacts[prov[a].g] \in ContactPool

\* C26: exactly-once coverage: after a run every secondary position and every
\* primary position is the source of exactly one output record, which carries
\* that secondary's profile URL, respectively that primary's notes.
C26_ExactlyOnce ==
    pc = "done" =>
        /\ \A j \in Secondaries :
              /\ Cardinality({a \in Records : prov[a].l = j}) = 1
              /\ \A a \in Records :
                    prov[a].l = j =>
                        matched[a].linkedin_url = linkedin_contacts[j].linkedin_url
        /\ \A k \in 1..Len(google_contacts) :
              /\ Cardinality({a \in Records : prov[a].g = k}) = 1
              /\ \A a \in Records :
                    prov[a].g = k => matched[a].notes = google_contacts[k].notes

\* a run with a pairing, a primary left alone and a secondary left alone
C26_Witness ==
    /\ pc = "done"
    /\ Pairings # {}
    /\ \E a \in Records : prov[a].g # 0 /\ prov[a].l = 0
    /\ \E a \in Records : prov[a].g = 0 /\ prov[a].l # 0
    /\ Len(matched) = 3

\* C27: pairing soundness: in the output of a run a HIGH pairing joins two
\* records with equal
\* non-empty lowercased emails or with equal non-empty normalized names and
\* equal non-empty normalized companies, a MEDIUM pairing two records with
\* equal non-empty normalized names; there is no other pairing.
C27_Soundness ==
    pc = "done" =>
        \A a \in Pairings :
            LET p == google_contacts[prov[a].g]
            IN /\ matched[a].match_confidence \in {"High", "Medium"}
               /\ matched[a].match_confidence = "High" =>
                     prov[a].l \in SameEmail(p) \cup SameNameCompany(p)
               /\ matched[a].match_confidence = "Medium" =>
                     prov[a].l \in SameName(p)

\* a HIGH pairing of two records with different emails, joined by name and
\* company, next to a MEDIUM pairing
C27_Witness ==
    /\ \E a \in Pairings :
          /\ matched[a].match_confidence = "High"
          /\ Truthy(google_contacts[prov[a].g].email)
          /\ Truthy(linkedin_contacts[prov[a].l].email)
          /\ prov[a].l \notin SameEmail(google_contacts[prov[a].g])
    /\ \E a \in Pairings : matched[a].match_confidence = "Medium"

\* the output records of a pairing
Claiming ==
    {a \in Records : matched[a].match_confidence \in {"High", "Medium"}}

\* C28: claimed-set invariant: the claimed set holds positions of the
\* secondary list only, has as many elements as HIGH or MEDIUM records were
\* emitted so far, at most one per processed primary and at most
\* min(len(primary), len(secondary)); no step removes an element, and a step
\* adds at most one, while it processes a primary.
C28_ClaimedSet ==
    /\ [](used_linkedin_indices \subseteq Secondaries)
    /\ [](Cardinality(used_linkedin_indices) = Cardinality(Claiming))
    /\ [](pc = "match" => Cardinality(used_linkedin_indices) <= i - 1)
    /\ [](Cardinality(used_linkedin_indices)
            <= Min({Len(google_contacts), Len(linkedin_contacts)}))
    /\ [][/\ used_linkedin_indices \subseteq used_linkedin_indices'
          /\ Cardinality(used_linkedin_indices' \ used_linkedin_indices) <= 1
          /\ used_linkedin_indices' # used_linkedin_indices =>
                (pc = "match" /\ i' = i + 1)]_vars

\* of two primaries the first claimed nothing and the second one of two
\* secondaries
C28_Witness ==
    /\ pc = "done"
    /\ Len(google_contacts) = 2
    /\ Len(linkedin_contacts) = 2
    /\ prov[1].l = 0
    /\ prov[2].l # 0
    /\ used_linkedin_indices = {prov[2].l}

\* ---- match_contacts: two invocations at the same time

\* what one invocation computes when nothing else runs: the three indices
\* after the first n secondaries
RECURSIVE alone_index(_, _)
alone_index(linkedin, n) ==
    IF n = 0
    THEN [by_email |-> EmptyDict, by_name |-> EmptyDict,
          by_name_company |-> EmptyDict]
    ELSE LET d == alone_index(linkedin, n - 1)
             c == linkedin[n]
             key == normalized_name(c)
         IN [by_email |->
                IF Truthy(c.email) THEN DictSet(d.by_email, lower(c.email), n)
                ELSE d.by_email,
             by_name |->
                IF Truthy(key)
                THEN DictSet(d.by_name, key,
                             (IF key \in DOMAIN d.by_name THEN d.by_name[key]
                              ELSE <<>>) \o <<n>>)
                ELSE d.by_name,
             by_name_company |->
                IF Truthy(key) /\ Truthy(normalized_company(c))
                THEN DictSet(d.by_name_company,
                             <<key, normalized_company(c)>>, n)
                ELSE d.by_name_company]

\* the records and the claimed set after the first n primaries
RECURSIVE alone_match(_, _, _, _)
alone_match(google, linkedin, idx, n) ==
    IF n = 0 THEN [matched |-> <<>>, used |-> {}]
    ELSE LET before == alone_match(google, linkedin, idx, n - 1)
             sel == select(google[n], idx.by_email, idx.by_name_company,
                           idx.by_name, before.used)
         IN [matched |->
                Append(before.matched,
                       from_contacts({google[n]},
                                     IF sel.idx # 0 THEN {linkedin[sel.idx]}
                                     ELSE {},
                                     sel.confidence)),
             used |-> IF sel.idx # 0 THEN before.used \cup {sel.idx}
                      ELSE before.used]

\* the records after the unclaimed ones of the first n secondaries are added
RECURSIVE alone_tail(_, _, _, _)
alone_tail(linkedin, used, sofar, n) ==
    IF n = 0 THEN sofar
    ELSE LET before == alone_tail(linkedin, used, sofar, n - 1)
         IN IF n \in used THEN before
            ELSE Append(before, from_contacts({}, {linkedin[n]}, no_confidence))

match_alone(google, linkedin) ==
    LET idx == alone_index(linkedin, Len(linkedin))
        m == alone_match(google, linkedin, idx, Len(google))
    IN alone_tail(linkedin, m.used, m.matched, Len(linkedin))

\* C25: invocation isolation: whatever the order of the steps of two
\* invocations that run at the same time, on the same two lists or on
\* exchanged ones, each returns the list it returns when it runs alone, and
\* neither raises.
C25_Isolation ==
    /\ pc # "raised"
    /\ peer_pc # "raised"
    /\ pc = "done" => matched = match_alone(google_contacts, linkedin_contacts)
    /\ peer_pc = "done" =>
          peer_matched = match_alone(peer_google_contacts,
                                     peer_linkedin_contacts)

\* one invocation has returned a pairing while the other one, on the same
\* lists, is in its loop over the primaries with a claim of its own and
\* another claimed set than the first
C25_Witness ==
    /\ pc = "done"
    /\ peer_pc = "match"
    /\ peer_google_contacts = google_contacts
    /\ peer_linkedin_contacts = linkedin_contacts
    /\ peer_used_linkedin_indices # {}
    /\ peer_used_linkedin_indices # used_linkedin_indices
    /\ Pairings # {}

\* ---- _get_client: visibility of the initialization

\* C29 as stated: no call returns a client whose authenticate() has not
\* completed, and no thread finds the instance set while its authentication
\* is still running.
C29_AsStated ==
    /\ \A t \in Threads : \A k \in 1..Len(th_got[t]) :
          th_got[t][k] \in authenticated
    /\ \A t \in Threads :
          th_pc[t] = "return" => client \in authenticated

\* ---- save_message, mark_message_sent

\* the latest call that found or wrote the file at a path
LatestOn(path) ==
    msg_log[Max({n \in 1..Len(msg_log) :
                    msg_log[n].path = path /\ msg_log[n].reply # "not found"})]

\* C30: saved-message sent flag: a stored message has sent true exactly when
\* the latest call on it was mark_message_sent; mark_message_sent for a
\* contact without a stored message reports not found and changes no file and
\* no directory; for a stored message it sets sent to true and leaves the
\* contact, the channel, the message text and every other file as they are.
C30_SentFlag ==
    /\ [](\A path \in DOMAIN msg_files :
            /\ msg_files[path].sent \in {<<"true">>, <<"false">>}
            /\ msg_files[path].sent = <<"true">> <=> LatestOn(path).op = "mark")
    /\ [][(msg_clock' # msg_clock /\ msg_log'[Len(msg_log')].op = "mark") =>
            LET call == msg_log'[Len(msg_log')]
            IN IF call.path \notin DOMAIN msg_files
               THEN /\ call.reply = "not found"
                    /\ msg_files' = msg_files
                    /\ msg_dirs' = msg_dirs
               ELSE /\ call.reply = "marked"
                    /\ msg_dirs' = msg_dirs
                    /\ DOMAIN msg_files' = DOMAIN msg_files
                    /\ \A path \in DOMAIN msg_files \ {call.path} :
                          msg_files'[path] = msg_files[path]
                    /\ msg_files'[call.path].sent = <<"true">>
                    /\ msg_files'[call.path].contact = msg_files[call.path].contact
                    /\ msg_files'[call.path].channel = msg_files[call.path].channel
                    /\ msg_files'[call.path].message = msg_files[call.path].message
          ]_vars

\* a message was saved, marked as sent and saved again, so that it is stored
\* unsent, after an earlier answer of not found
C30_Witness ==
    /\ Len(msg_log) >= 3
    /\ \E path \in DOMAIN msg_files :
          /\ msg_files[path].sent = <<"false">>
          /\ \E n \in 1..Len(msg_log) :
                msg_log[n].path = path /\ msg_log[n].reply = "marked"

====
